---- MODULE Spec2Model ----
(***************************************************************************)
(* kulchur: the bulk concurrent loader of src/kulchur/insaneasylum.py.     *)
(*                                                                         *)
(* One behaviour is one call of bulk_load_aio.  The arguments of the call  *)
(* are chosen in Init and never change.  The orchestrator coroutine and    *)
(* the single-item tasks it creates run on one asyncio event loop, so a    *)
(* step of the model is the code between two suspension points (await).   *)
(* Python's None and 0 are both falsy; the optional integers batch_delay   *)
(* and batch_size use 0 for None, write_json uses FALSE for None.          *)
(* exclude_attrs is left at its default (None) and see_progress only       *)
(* prints, so neither is part of the state.                                *)
(***************************************************************************)
EXTENDS Integers, Sequences, FiniteSets, TLC

\* ---------------------------------------------------------------- bounds
MaxIds == 3
MaxAttempts == 2
MaxSem == 2
MaxBatch == 2
\* Loader invocations that fail in one run, at most.
MaxFaults == 2
\* Load calls made on one loader instance, at most.
MaxLoads == 2

\* ------------------------------------------------------------ arguments
VARIABLES category, identifiers, semaphore_count, num_attempts,
          batch_delay, batch_size, to_dict, write_json

\* ------------------------------------------------------------ the call
\* The function that was called and the pacing options the caller left
\* out of the call.
VARIABLES entry, omitted

\* -------------------------------------------------- orchestrator locals
VARIABLES pc, cat, cat_fn, sem, session, task, done_queue, bulk_data,
          failed_items, completed, pauses, attempted, successes, failures,
          success_rate, error

\* ------------------------------------------------- one loader instance
\* An Alexandria, Pound or FalseDmitry object: its class, its _soup, its
\* book_url (author_url, user_url) as item_url, where its running load stands and
\* whether that load is load_* or load_*_async, how its load calls have
\* ended so far, and the last other method called since the last load
\* with what it raised or returned.
VARIABLES klass, _soup, item_url, lpc, how, load_hist, last

\* ------------------------------------------------------------- history
\* The tasks in the order in which they finished; what as_completed has
\* been told so far, handed over or not.
VARIABLE settled

call == <<entry, omitted>>
args == <<call, category, identifiers, semaphore_count, num_attempts,
          batch_delay, batch_size, to_dict, write_json>>
summary == <<attempted, successes, failures, success_rate>>
instance == <<klass, _soup, item_url, lpc, how, load_hist, last>>
vars == <<args, pc, cat, cat_fn, sem, session, task, done_queue, bulk_data,
          failed_items, completed, pauses, summary, error, settled, instance>>
locals == <<pc, cat, cat_fn, sem, session, task, done_queue, bulk_data,
            failed_items, completed, pauses, summary, error, settled>>

\* ------------------------------------------------------------- strings
\* A category string is the sequence of its characters, so that
\* str.lower() is computed and not assumed.
LowerChar(c) ==
    CASE c = "A" -> "a"
      [] c = "B" -> "b"
      [] c = "U" -> "u"
      [] c = "M" -> "m"
      [] OTHER -> c

Lower(s) == [i \in DOMAIN s |-> LowerChar(s[i])]

book == <<"b", "o", "o", "k">>
user == <<"u", "s", "e", "r">>
author == <<"a", "u", "t", "h", "o", "r">>

CategoryInputs ==
    {book, user, author, <<"B", "o", "o", "k">>, <<"M", "o", "v", "i", "e">>}

CategoriesAccepted == {book, user, author}

cat_fn_map ==
    [c \in CategoriesAccepted |->
        CASE c = book -> "_load_one_book_aio"
          [] c = user -> "_load_one_user_aio"
          [] c = author -> "_load_one_author_aio"]

NoFn == "unbound"

\* Identifier strings.  Serial(k) is the string of digits of the number k,
\* Url(k) the full URL of the page of k in the category asked for.
Serial(k) == [form |-> "serial", n |-> k]
Url(k) == [form |-> "url", n |-> k]
NoneStr == [form |-> "None", n |-> 0]

\* load_*_async, lines 59-68 of alexandria.py: a serial number is turned
\* into the URL of its page, a URL is kept.
ToUrl(identifier) ==
    IF identifier.form = "serial" THEN Url(identifier.n) ELSE identifier

\* recruits._parse_id: the first run of digits of the URL.
_parse_id(url) ==
    IF url.form = "url" THEN Serial(url.n) ELSE NoneStr

\* The lists of identifiers tried: n different identifiers, serial numbers
\* at the odd places and URLs at the even ones, and one list that holds
\* the same identifier twice.
IdAt(i) == IF i % 2 = 1 THEN Serial(i) ELSE Url(i)
Distinct(n) == [i \in 1..n |-> IdAt(i)]
Twice == <<IdAt(1), IdAt(1)>>
IdentifierLists == {Distinct(n) : n \in 0..MaxIds} \cup {Twice}

\* batch_delay and batch_size as passed: both, neither, or only one.
PacingInputs ==
    {<<0, 0>>, <<1, 0>>, <<0, 1>>} \cup {<<1, b>> : b \in 1..MaxBatch}

Range(s) == {s[i] : i \in DOMAIN s}

RECURSIVE Count(_, _)
Count(s, S) ==
    IF s = <<>> THEN 0
    ELSE (IF Head(s) \in S THEN 1 ELSE 0) + Count(Tail(s), S)

\* ------------------------------------------------------ values returned
\* What a single-item task returns: a record of the page (a dict, or a
\* SimpleNamespace when to_dict is False), the identifier string, or None.
Record(identifier, asDict) ==
    [kind |-> IF asDict THEN "dict" ELSE "SimpleNamespace",
     id |-> _parse_id(ToUrl(identifier))]
FailedId(identifier) == [kind |-> "str", id |-> identifier]
None == [kind |-> "None", id |-> NoneStr]
Pending == [kind |-> "pending", id |-> NoneStr]

isinstance_str(result) == result.kind = "str"

\* How one invocation of load_*_async (and the get_all_data that follows
\* it inside the same try block) ends.  "Exception" stands for every
\* exception class that is neither asyncio.TimeoutError nor
\* aiohttp.ClientError: the ValueError of an invalid identifier, the
\* Exception raised for a status other than 200, for a private profile and
\* for a page that does not parse.
LoadFailures == {"TimeoutError", "ClientError", "Exception"}
NonTransient == {"Exception"}

NoError == [type |-> "none", line |-> 0]
Raise(type, line) == [type |-> type, line |-> line]

\* ----------------------------------------------------------------- Init
\* The arguments tried.  The pacing options (read by lines 198-200) and
\* the output options (read by lines 213-214 and by get_all_data) are
\* varied one group at a time, the other group at the defaults of
\* bulk_books_aio: every call without pacing and with the default output,
\* the paced calls with at most one attempt per identifier, and the calls
\* with another output with at most one slot.
PacingOff == batch_delay = 0 /\ batch_size = 0
OutputDefault == to_dict /\ ~write_json
OneAtATime ==
    \/ PacingOff /\ OutputDefault
    \/ OutputDefault /\ num_attempts <= 1
    \/ PacingOff /\ semaphore_count <= 1

\* The longest lists are not run with the most slots: what the gate does
\* shows when tasks have to queue for it.
SlotsForList == Len(identifiers) + semaphore_count <= MaxIds + 2

\* A negative num_attempts is tried without pacing, with the default output
\* and with one slot at most.
NegativeAttempts ==
    num_attempts >= 0 \/ (PacingOff /\ OutputDefault /\ semaphore_count <= 1)

\* No loader object is looked at: bulk_load_aio is what is called.
NoSoup == [of |-> NoneStr]
NoCall == [op |-> "none", arg |-> "none", raised |-> "none", value |-> "none"]
NoInstance ==
    /\ klass = "none"
    /\ _soup = NoSoup
    /\ item_url = NoneStr
    /\ lpc = "none"
    /\ how = "none"
    /\ load_hist = <<>>
    /\ last = NoCall

Init ==
    /\ category \in CategoryInputs
    /\ identifiers \in IdentifierLists
    /\ semaphore_count \in (-1)..MaxSem
    /\ num_attempts \in (-1)..MaxAttempts
    /\ batch_delay \in 0..1
    /\ batch_size \in 0..MaxBatch
    /\ <<batch_delay, batch_size>> \in PacingInputs
    /\ to_dict \in BOOLEAN
    /\ write_json \in BOOLEAN
    /\ OneAtATime
    /\ SlotsForList
    /\ NegativeAttempts
    /\ entry = "bulk_load_aio"
    /\ omitted = {}
    /\ pc = "called"
    /\ cat = <<>>
    /\ cat_fn = NoFn
    /\ sem = 0
    /\ session = "none"
    /\ task = <<>>
    /\ done_queue = <<>>
    /\ bulk_data = <<>>
    /\ failed_items = <<>>
    /\ completed = 0
    /\ pauses = 0
    /\ attempted = 0
    /\ successes = 0
    /\ failures = 0
    /\ success_rate = <<0, 0>>
    /\ error = NoError
    /\ settled = <<>>
    /\ NoInstance

\* ------------------------------------------------- bulk_load_aio, entry
\* A membership test that only refuses the empty string.
CategoryRejected_Empty(c) == c = <<>>

\* Line 173: the membership test on the lower-cased category.
CategoryRejected(c) == c \notin {book, user, author}

\* Lines 172-174.
CheckCategory ==
    /\ pc = "called"
    /\ cat' = Lower(category)
    /\ IF CategoryRejected(cat')
       THEN /\ pc' = "raised"
            /\ error' = Raise("ValueError", 174)
       ELSE /\ pc' = "lookup"
            /\ UNCHANGED error
    /\ UNCHANGED <<args, instance, settled, cat_fn, sem, session, task, done_queue, bulk_data,
                   failed_items, completed, pauses, summary>>

\* Lines 176-181: the table is indexed by category, not by cat.
LookupLoader ==
    /\ pc = "lookup"
    /\ IF category \in DOMAIN cat_fn_map
       THEN /\ cat_fn' = cat_fn_map[category]
            /\ pc' = "setup"
            /\ UNCHANGED error
       ELSE /\ pc' = "raised"
            /\ error' = Raise("KeyError", 181)
            /\ UNCHANGED cat_fn
    /\ UNCHANGED <<args, instance, settled, cat, sem, session, task, done_queue, bulk_data,
                   failed_items, completed, pauses, summary>>

NewTask == [pc |-> "waiting", attempt |-> 0, calls |-> 0, sleeps |-> 0,
            hist |-> <<>>, slept |-> <<>>, result |-> Pending]

\* A launch that builds one coroutine per distinct identifier.
Coroutines_Dedup == [t \in 1..Cardinality(Range(identifiers)) |-> NewTask]

\* Lines 187-193: the list comprehension builds one coroutine for each
\* element of identifiers, equal elements included.
Coroutines == [t \in 1..Len(identifiers) |-> NewTask]

\* Lines 183-197: asyncio.Semaphore refuses a negative value; the session
\* is opened, one coroutine per element of identifiers is built and
\* as_completed wraps each in a task.  Nothing runs before the first await
\* of the drain loop.
Launch ==
    /\ pc = "setup"
    /\ IF semaphore_count < 0
       THEN /\ pc' = "raised"
            /\ error' = Raise("ValueError", 183)
            /\ UNCHANGED <<sem, session, task>>
       ELSE /\ sem' = semaphore_count
            /\ session' = "open"
            /\ task' = Coroutines
            /\ pc' = "draining"
            /\ UNCHANGED error
    /\ UNCHANGED <<args, instance, settled, cat, cat_fn, done_queue, bulk_data, failed_items,
                   completed, pauses, summary>>

\* ------------------------------------------------- the single-item tasks
Tasks == DOMAIN task

\* A task without line 40: range(num_attempts) as passed.
Attempts_AsPassed == num_attempts

\* Line 40 (86, 127).
Attempts == IF num_attempts > 1 THEN num_attempts ELSE 1

\* An acquire that keeps the order of arrival but does not look at the
\* value of the semaphore.
CanAcquire_Ungated(t) ==
    \A u \in Tasks : u < t => task[u].pc # "waiting"

\* asyncio.Semaphore.acquire: a slot is free and no earlier task is still
\* queued for one (waiters are served first in, first out, and the tasks
\* start in the order of identifiers).
CanAcquire(t) ==
    /\ sem > 0
    /\ \A u \in Tasks : u < t => task[u].pc # "waiting"

\* The loader invocations of the run that have failed so far.
RECURSIVE FaultsUpTo(_)
FaultsUpTo(n) ==
    IF n = 0 THEN 0 ELSE Count(task[n].hist, LoadFailures) + FaultsUpTo(n - 1)
Faults == FaultsUpTo(Len(task))

\* A done callback that queues the finished task ahead of the others.
Settle_Prepend(t, rec, result) ==
    /\ task' = [task EXCEPT ![t] = [rec EXCEPT !.pc = "done", !.result = result]]
    /\ sem' = sem + 1
    /\ done_queue' = <<t>> \o done_queue
    /\ settled' = Append(settled, t)

\* A task that ends without giving its slot back.
Settle_NoRelease(t, rec, result) ==
    /\ task' = [task EXCEPT ![t] = [rec EXCEPT !.pc = "done", !.result = result]]
    /\ sem' = sem
    /\ done_queue' = Append(done_queue, t)
    /\ settled' = Append(settled, t)

\* The task leaves `async with semaphore` with the value it returns; its
\* done callback queues it for as_completed.
Settle(t, rec, result) ==
    /\ task' = [task EXCEPT ![t] = [rec EXCEPT !.pc = "done", !.result = result]]
    /\ sem' = sem + 1
    /\ done_queue' = Append(done_queue, t)
    /\ settled' = Append(settled, t)

\* The bookkeeping of one loader invocation that has ended.
Ended(t, outcome) == [task[t] EXCEPT !.hist = Append(@, outcome)]

\* A retry loop that is off by one: range(num_attempts + 1).
NextAttempt_OneMore(t, rec) ==
    IF rec.attempt + 1 <= Attempts
    THEN /\ task' = [task EXCEPT ![t] = [rec EXCEPT !.pc = "loading",
                                                   !.attempt = @ + 1,
                                                   !.calls = @ + 1]]
         /\ UNCHANGED <<sem, done_queue, settled>>
    ELSE /\ task' = [task EXCEPT ![t] = [rec EXCEPT !.pc = "done",
                                                   !.attempt = @ + 1,
                                                   !.result = None]]
         /\ sem' = sem + 1
         /\ done_queue' = Append(done_queue, t)
         /\ settled' = Append(settled, t)

\* The for loop of lines 41 (87, 128) moves to its next attempt, or runs
\* out and the coroutine returns None.
NextAttempt(t, rec) ==
    IF rec.attempt + 1 < Attempts
    THEN /\ task' = [task EXCEPT ![t] = [rec EXCEPT !.pc = "loading",
                                                   !.attempt = @ + 1,
                                                   !.calls = @ + 1]]
         /\ UNCHANGED <<sem, done_queue, settled>>
    ELSE Settle(t, [rec EXCEPT !.attempt = @ + 1], None)

\* Lines 39-46 (85-92, 126-133): the slot is taken and the first loader
\* invocation starts; a loop of no iteration would fall through to the end
\* of the coroutine at once.
Acquire(t) ==
    /\ pc = "draining"
    /\ task[t].pc = "waiting"
    /\ CanAcquire(t)
    /\ IF Attempts >= 1
       THEN /\ sem' = sem - 1
            /\ task' = [task EXCEPT ![t].pc = "loading", ![t].calls = 1]
            /\ UNCHANGED <<done_queue, settled>>
       ELSE /\ task' = [task EXCEPT ![t].pc = "done", ![t].result = None]
            /\ done_queue' = Append(done_queue, t)
            /\ settled' = Append(settled, t)
            /\ UNCHANGED sem
    /\ UNCHANGED <<args, instance, pc, cat, cat_fn, session, bulk_data,
                   failed_items, completed, pauses, summary, error>>

\* Lines 44-54 (90-95, 131-136): the loader returns and the data is read.
LoadReturns(t) ==
    /\ pc = "draining"
    /\ task[t].pc = "loading"
    /\ Settle(t, Ended(t, "ok"), Record(identifiers[t], to_dict))
    /\ UNCHANGED <<args, instance, pc, cat, cat_fn, session, bulk_data, failed_items,
                   completed, pauses, summary, error>>

\* A backoff whose base is the number of the attempt to come.
sleep_base_Next(attempt) == attempt + 2

\* Lines 57-58 (98-99, 139-140): sleep_time = (attempt + 1) ** SLEEP_SCALAR
\* with SLEEP_SCALAR = 1.5 and attempt the index of range(num_attempts).
\* The base is kept, and the square of the duration, which is an integer.
sleep_base(attempt) == attempt + 1
sleep_time_squared(attempt) == sleep_base(attempt) * sleep_base(attempt) * sleep_base(attempt)

\* One backoff sleep of a task: the number (from 1) of the attempt it would
\* come before, its base and the square of its duration.
Backoff(rec) ==
    [before |-> rec.calls + 1,
     base |-> sleep_base(rec.attempt),
     squared |-> sleep_time_squared(rec.attempt)]

\* A backoff taken outside `async with semaphore`: the slot is given up
\* for the time of the sleep.
LoadTimesOut_Releases(t) ==
    /\ pc = "draining"
    /\ task[t].pc = "loading"
    /\ Faults < MaxFaults
    /\ task' = [task EXCEPT ![t] = [Ended(t, "TimeoutError") EXCEPT
                                        !.pc = "sleeping", !.sleeps = @ + 1,
                                        !.slept = Append(@, Backoff(task[t]))]]
    /\ sem' = sem + 1
    /\ UNCHANGED <<args, instance, settled, pc, cat, cat_fn, session,
                   done_queue, bulk_data, failed_items, completed, pauses,
                   summary, error>>

\* Lines 56-59 (97-100, 138-141): asyncio.TimeoutError; the task sleeps,
\* still inside `async with semaphore`.
LoadTimesOut(t) ==
    /\ pc = "draining"
    /\ task[t].pc = "loading"
    /\ Faults < MaxFaults
    /\ task' = [task EXCEPT ![t] = [Ended(t, "TimeoutError") EXCEPT
                                        !.pc = "sleeping", !.sleeps = @ + 1,
                                        !.slept = Append(@, Backoff(task[t]))]]
    /\ UNCHANGED <<args, instance, settled, pc, cat, cat_fn, sem, session, done_queue, bulk_data,
                   failed_items, completed, pauses, summary, error>>

\* Lines 59-60 (100-101, 141-142): the sleep is over, the loop goes on.
BackoffEnds(t) ==
    /\ pc = "draining"
    /\ task[t].pc = "sleeping"
    /\ NextAttempt(t, task[t])
    /\ UNCHANGED <<args, instance, pc, cat, cat_fn, session, bulk_data, failed_items,
                   completed, pauses, summary, error>>

\* Lines 62-64 and 103-105 return the identifier; lines 144-145 only print.
HandlerReturnsIdentifier(fn) == fn \in {"_load_one_book_aio", "_load_one_user_aio"}

\* Lines 62-64 (103-105, 144-145): any other exception.
LoadFails(t, e) ==
    /\ pc = "draining"
    /\ task[t].pc = "loading"
    /\ e \in LoadFailures \ {"TimeoutError"}
    /\ Faults < MaxFaults
    /\ IF HandlerReturnsIdentifier(cat_fn)
       THEN Settle(t, Ended(t, e), FailedId(identifiers[t]))
       ELSE NextAttempt(t, Ended(t, e))
    /\ UNCHANGED <<args, instance, pc, cat, cat_fn, session, bulk_data, failed_items,
                   completed, pauses, summary, error>>

\* ------------------------------------------------------- the drain loop
\* A pause check that looks at batch_size alone.
PauseDue_SizeOnly ==
    /\ batch_size # 0
    /\ completed > 0
    /\ completed % batch_size = 0

\* Lines 198-199.
PauseDue ==
    /\ batch_delay # 0
    /\ batch_size # 0
    /\ completed > 0
    /\ completed % batch_size = 0

\* A drain loop that drops a None result instead of appending it.
NextBulkData_DropNone(result) ==
    IF isinstance_str(result) \/ result.kind = "None"
    THEN bulk_data
    ELSE Append(bulk_data, result)

\* A drain loop that lists a failed identifier once only.
NextFailedItems_Once(result) ==
    IF isinstance_str(result) /\ result.id \notin Range(failed_items)
    THEN Append(failed_items, result.id)
    ELSE failed_items

\* Lines 202-205.
NextBulkData(result) ==
    IF isinstance_str(result) THEN bulk_data ELSE Append(bulk_data, result)

NextFailedItems(result) ==
    IF isinstance_str(result) THEN Append(failed_items, result.id) ELSE failed_items

\* Lines 201-206.
Consume ==
    LET result == task[Head(done_queue)].result
    IN /\ bulk_data' = NextBulkData(result)
       /\ failed_items' = NextFailedItems(result)
       /\ completed' = completed + 1
       /\ done_queue' = Tail(done_queue)

\* Lines 197-206: as_completed hands over the next finished task, in the
\* order in which the tasks finished.
DrainNext ==
    /\ pc = "draining"
    /\ done_queue # <<>>
    /\ IF PauseDue
       THEN /\ pc' = "paused"
            /\ pauses' = pauses + 1
            /\ UNCHANGED <<done_queue, bulk_data, failed_items, completed>>
       ELSE /\ Consume
            /\ UNCHANGED <<pc, pauses>>
    /\ UNCHANGED <<args, instance, settled, cat, cat_fn, sem, session, task, summary, error>>

\* Lines 200-206: time.sleep(batch_delay) returns.  It blocks the thread
\* of the event loop, so no task has moved in the meantime.
PauseEnds ==
    /\ pc = "paused"
    /\ Consume
    /\ pc' = "draining"
    /\ UNCHANGED <<args, instance, settled, cat, cat_fn, sem, session, task, pauses, summary, error>>

\* A session made without `async with`: nothing closes it.
EndDrain_NoClose ==
    /\ pc = "draining"
    /\ completed = Len(identifiers)
    /\ pc' = "summary"
    /\ UNCHANGED <<args, instance, settled, cat, cat_fn, sem, session, task,
                   done_queue, bulk_data, failed_items, completed, pauses,
                   summary, error>>

\* Lines 197, 207: every task was handed over; `async with` closes the
\* session.
EndDrain ==
    /\ pc = "draining"
    /\ completed = Len(identifiers)
    /\ session' = "closed"
    /\ pc' = "summary"
    /\ UNCHANGED <<args, instance, settled, cat, cat_fn, sem, task, done_queue, bulk_data,
                   failed_items, completed, pauses, summary, error>>

\* Line 214: bk.__dict__ of None is an AttributeError.
HasDict(result) == result.kind # "None"

\* Lines 209-243.
Summarize ==
    /\ pc = "summary"
    /\ attempted' = Len(identifiers)
    /\ successes' = Len(bulk_data)
    /\ failures' = Len(identifiers) - successes'
    /\ IF attempted' = 0
       THEN /\ pc' = "raised"
            /\ error' = Raise("ZeroDivisionError", 212)
            /\ UNCHANGED success_rate
       ELSE /\ success_rate' = <<successes', attempted'>>
            /\ IF write_json /\ ~to_dict /\ \E i \in DOMAIN bulk_data : ~HasDict(bulk_data[i])
               THEN /\ pc' = "raised"
                    /\ error' = Raise("AttributeError", 214)
               ELSE /\ pc' = "returned"
                    /\ UNCHANGED error
    /\ UNCHANGED <<args, instance, settled, cat, cat_fn, sem, session, task, done_queue,
                   bulk_data, failed_items, completed, pauses>>

Next ==
    \/ CheckCategory
    \/ LookupLoader
    \/ Launch
    \/ \E t \in Tasks : Acquire(t)
    \/ \E t \in Tasks : LoadReturns(t)
    \/ \E t \in Tasks : LoadTimesOut(t)
    \/ \E t \in Tasks : BackoffEnds(t)
    \/ \E t \in Tasks, e \in LoadFailures : LoadFails(t, e)
    \/ DrainNext
    \/ PauseEnds
    \/ EndDrain
    \/ Summarize

Spec == Init /\ [][Next]_vars

\* ------------------------------------------------- the entry points
\* Lines 153-154: the defaults of bulk_load_aio.
DefaultBatchDelay == 1
DefaultBatchSize == 5

\* Lines 293, 350, 407: the category each wrapper passes on.
WrapperCategory ==
    [f \in {"bulk_books_aio", "bulk_users_aio", "bulk_authors_aio"} |->
        CASE f = "bulk_books_aio" -> book
          [] f = "bulk_users_aio" -> user
          [] f = "bulk_authors_aio" -> author]

EntryPoints == {"bulk_load_aio"} \cup DOMAIN WrapperCategory

\* The value a pacing parameter of bulk_load_aio is bound to: the value
\* passed or, if the caller left it out, the default of the function that
\* was called.  A wrapper's default is None (lines 250-251, 309-310,
\* 366-367) and it passes every option on by keyword (lines 293-302).
Bound(name, passed, default) ==
    IF name \in omitted
    THEN (IF entry = "bulk_load_aio" THEN default ELSE 0)
    ELSE passed

\* Lines 148-157 and 246-302 (305-359, 362-416): the parameters of
\* bulk_load_aio are bound.
Enter ==
    /\ pc = "entry"
    /\ category' = IF entry = "bulk_load_aio" THEN category ELSE WrapperCategory[entry]
    /\ batch_delay' = Bound("batch_delay", batch_delay, DefaultBatchDelay)
    /\ batch_size' = Bound("batch_size", batch_size, DefaultBatchSize)
    /\ pc' = "called"
    /\ UNCHANGED <<call, identifiers, semaphore_count, num_attempts, to_dict,
                   write_json, cat, cat_fn, sem, session, task, done_queue,
                   bulk_data, failed_items, completed, pauses, summary, error,
                   settled, instance>>

\* Calls of the four entry points with the pacing options passed or left
\* out, over a short list and over one that is longer than the default
\* batch size; one slot, one attempt, default output.
WrapperInit ==
    /\ entry \in EntryPoints
    /\ omitted \in {{}, {"batch_delay", "batch_size"}}
    /\ category \in (IF entry = "bulk_load_aio" THEN CategoriesAccepted ELSE {<<>>})
    /\ identifiers \in {Distinct(2), Distinct(DefaultBatchSize + 1)}
    /\ semaphore_count = 1
    /\ num_attempts = 1
    /\ batch_delay \in 0..1
    /\ batch_size \in 0..MaxBatch
    /\ <<batch_delay, batch_size>> \in
          (IF omitted = {} THEN PacingInputs ELSE {<<0, 0>>})
    /\ to_dict = TRUE
    /\ write_json = FALSE
    /\ pc = "entry"
    /\ cat = <<>>
    /\ cat_fn = NoFn
    /\ sem = 0
    /\ session = "none"
    /\ task = <<>>
    /\ done_queue = <<>>
    /\ bulk_data = <<>>
    /\ failed_items = <<>>
    /\ completed = 0
    /\ pauses = 0
    /\ attempted = 0
    /\ successes = 0
    /\ failures = 0
    /\ success_rate = <<0, 0>>
    /\ error = NoError
    /\ settled = <<>>
    /\ NoInstance

WrapperNext == Enter \/ Next
WrapperSpec == WrapperInit /\ [][WrapperNext]_vars

\* The calls with at least one slot, under an event loop that runs some
\* callback whenever one is ready; a loader invocation that has started
\* ends (it returns or raises; aiohttp's timeout bounds it).  The longer
\* lists are tried with the fewer slots, where tasks have to queue, and
\* the output options are left at their defaults.
FairInit ==
    /\ Init
    /\ semaphore_count >= 1
    /\ Len(identifiers) + semaphore_count <= MaxIds + 1
    /\ OutputDefault
FairSpec == FairInit /\ [][Next]_vars /\ WF_vars(Next)

\* ------------------------------------------------- the loader classes
Classes == {"Alexandria", "Pound", "FalseDmitry"}

\* Identifier strings that the load methods refuse: one that is neither a
\* URL of the site nor all digits, and the empty string.
Junk == [form |-> "junk", n |-> 0]
Empty == [form |-> "empty", n |-> 0]
LoadIdentifiers == {Serial(1), Url(2), Junk, Empty}

\* alexandria.py lines 59-67 (pound.py 48-56, falsedmitry.py 50-58).
IdentifierAccepted(identifier) == identifier.form \in {"serial", "url"}

\* The parsed page of a URL.
Soup(u) == [of |-> _parse_id(u)]

\* How a fetch ends: load_*_async re-raises asyncio.TimeoutError,
\* aiohttp.ClientError and Exception (lines 94-99), load_* raises
\* requests.HTTPError and Exception (lines 152-155).
LoadOutcomes(mode) ==
    {"returned"} \cup
        (IF mode = "async" THEN LoadFailures ELSE {"HTTPError", "Exception"})

\* A load that keeps the parsed page before it looks at the response.
SoupAfter_Early(outcome, page) == page

\* alexandria.py lines 75-86 (134-144): self._soup is assigned after the
\* status check and the parsing, so only by a load that goes through.
SoupAfter(outcome, page) == IF outcome = "returned" THEN page ELSE _soup

\* alexandria.py lines 158-161 (pound.py 141-144, falsedmitry.py
\* 149-152): what _confirm_loaded raises.
_confirm_loaded == IF _soup = NoSoup THEN "RuntimeError" ELSE "none"

\* alexandria.py line 427 (pound.py 413, falsedmitry.py 468).
ToDictDefault == TRUE

\* alexandria.py lines 425-493: the kind of object get_all_data returns.
get_all_data(arg) ==
    LET asDict == IF arg = "omitted" THEN ToDictDefault ELSE arg = "True"
    IN IF asDict THEN "dict" ELSE "SimpleNamespace"

\* falsedmitry.py lines 29-33 and 76-83: _info_left is None on a new
\* object and is assigned together with _soup, from the same page.
_info_left == IF _soup = NoSoup THEN NoneStr ELSE _soup.of

\* The public getters tried: get_id, one getter that reads the page
\* (get_title of Alexandria, get_name of the two others), and
\* get_shelf_names, which only FalseDmitry has.
Getters(k) ==
    {"get_id"} \cup
        (IF k = "Alexandria" THEN {"get_title"} ELSE {"get_name"}) \cup
        (IF k = "FalseDmitry" THEN {"get_shelf_names"} ELSE {})

\* Every getter starts with self._confirm_loaded() (alexandria.py lines
\* 166, 175, ...; pound.py 149, 160, ...; falsedmitry.py 157, 167, ...)
\* except get_shelf_names (falsedmitry.py lines 447-463).
ConfirmsFirst(getter) == getter # "get_shelf_names"

\* What a getter raises: the error of _confirm_loaded, or, in
\* get_shelf_names, the AttributeError of None.find at line 450.
GetterRaises(getter) ==
    IF ConfirmsFirst(getter)
    THEN _confirm_loaded
    ELSE IF _info_left = NoneStr THEN "AttributeError" ELSE "none"

\* alexandria.py lines 173-176 (pound.py 158-161, falsedmitry.py
\* 165-168): get_id parses the URL attribute.
get_id == _parse_id(item_url)

\* The item a getter's value belongs to: the one of the URL attribute for
\* get_id, the one whose page is held for the getters that read the page.
GetterValue(getter) ==
    IF getter = "get_id"
    THEN get_id
    ELSE IF getter = "get_shelf_names" THEN _info_left ELSE _soup.of

\* load_book / load_book_async is called: lines 59-68 (118-127).  The URL
\* attribute is set before anything is fetched.
LoadCalled(mode, identifier) ==
    /\ lpc = "idle"
    /\ Len(load_hist) < MaxLoads
    /\ last' = NoCall
    /\ IF IdentifierAccepted(identifier)
       THEN /\ item_url' = ToUrl(identifier)
            /\ lpc' = "fetching"
            /\ how' = mode
            /\ UNCHANGED load_hist
       ELSE /\ load_hist' = Append(load_hist, "ValueError")
            /\ UNCHANGED <<item_url, lpc, how>>
    /\ UNCHANGED <<klass, _soup, args, locals>>

\* Lines 72-99 (131-155): the fetch ends and the call returns self or
\* raises.
LoadEnded(outcome) ==
    /\ lpc = "fetching"
    /\ outcome \in LoadOutcomes(how)
    /\ _soup' = SoupAfter(outcome, Soup(item_url))
    /\ load_hist' = Append(load_hist, outcome)
    /\ lpc' = "idle"
    /\ UNCHANGED <<klass, item_url, how, last, args, locals>>

\* Lines 158-161: _confirm_loaded() is called.
ConfirmLoadedCalled ==
    /\ lpc = "idle"
    /\ last' = [op |-> "_confirm_loaded", arg |-> "none",
                raised |-> _confirm_loaded,
                value |-> IF _confirm_loaded = "none" THEN "None" ELSE "none"]
    /\ UNCHANGED <<klass, _soup, item_url, lpc, how, load_hist, args, locals>>

\* Lines 425-493: get_all_data() is called, to_dict left out or passed.
GetAllDataCalled(arg) ==
    /\ lpc = "idle"
    /\ last' = [op |-> "get_all_data", arg |-> arg,
                raised |-> _confirm_loaded,
                value |-> IF _confirm_loaded = "none"
                          THEN get_all_data(arg) ELSE "none"]
    /\ UNCHANGED <<klass, _soup, item_url, lpc, how, load_hist, args, locals>>

\* One of the public getters is called.
GetterCalled(getter) ==
    /\ lpc = "idle"
    /\ getter \in Getters(klass)
    /\ last' = [op |-> getter, arg |-> "none",
                raised |-> GetterRaises(getter),
                value |-> IF GetterRaises(getter) = "none"
                          THEN GetterValue(getter) ELSE NoneStr]
    /\ UNCHANGED <<klass, _soup, item_url, lpc, how, load_hist, args, locals>>

\* A new object of one of the three classes (__init__: _soup is None),
\* and no call of bulk_load_aio.
LoaderInit ==
    /\ klass \in Classes
    /\ _soup = NoSoup
    /\ item_url = NoneStr
    /\ lpc = "idle"
    /\ how = "none"
    /\ load_hist = <<>>
    /\ last = NoCall
    /\ entry = "none"
    /\ omitted = {}
    /\ category = <<>>
    /\ identifiers = <<>>
    /\ semaphore_count = 0
    /\ num_attempts = 0
    /\ batch_delay = 0
    /\ batch_size = 0
    /\ to_dict = TRUE
    /\ write_json = FALSE
    /\ pc = "none"
    /\ cat = <<>>
    /\ cat_fn = NoFn
    /\ sem = 0
    /\ session = "none"
    /\ task = <<>>
    /\ done_queue = <<>>
    /\ bulk_data = <<>>
    /\ failed_items = <<>>
    /\ completed = 0
    /\ pauses = 0
    /\ attempted = 0
    /\ successes = 0
    /\ failures = 0
    /\ success_rate = <<0, 0>>
    /\ error = NoError
    /\ settled = <<>>

LoaderNext ==
    \/ \E mode \in {"sync", "async"}, identifier \in LoadIdentifiers :
          LoadCalled(mode, identifier)
    \/ \E outcome \in {"returned", "HTTPError"} \cup LoadFailures : LoadEnded(outcome)
    \/ ConfirmLoadedCalled
    \/ \E arg \in {"omitted", "True", "False"} : GetAllDataCalled(arg)
    \/ \E getter \in {"get_id", "get_title", "get_name", "get_shelf_names"} :
          GetterCalled(getter)

LoaderSpec == LoaderInit /\ [][LoaderNext]_vars

\* ============================================================ properties
InFlight == Cardinality({t \in Tasks : task[t].pc = "loading"})

\* The drain loop has ended and the session is closed.
Drained == pc \in {"summary", "returned", "raised"} /\ session = "closed"

\* Lines 209-211 have run.
Summarised == pc = "returned" \/ (pc = "raised" /\ error.line >= 212)

StrResults == {t \in Tasks : isinstance_str(task[t].result)}
OtherResults == {t \in Tasks : task[t].pc = "done" /\ ~isinstance_str(task[t].result)}

\* The identifier of task t is in the failed list, is counted as a failure
\* and has put nothing into the list that is returned.
RecordedFailed(t) ==
    /\ task[t].result = FailedId(identifiers[t])
    /\ identifiers[t] \in Range(failed_items)
    /\ failures >= 1

FailedNonTransient(t) == \E i \in DOMAIN task[t].hist : task[t].hist[i] \in NonTransient

TimedOutEveryAttempt(t) ==
    /\ Len(task[t].hist) = Attempts
    /\ \A i \in DOMAIN task[t].hist : task[t].hist[i] = "TimeoutError"

SubmittedIds == {_parse_id(ToUrl(identifiers[j])) : j \in DOMAIN identifiers}

\* C1: with semaphore_count = N >= 1, at most N tasks are inside a
\* load_*_async call in every reachable state; the count does reach N while
\* further tasks wait (N = 2).
C1_InFlightBounded == semaphore_count >= 1 => InFlight <= semaphore_count

C1_Witness ==
    /\ semaphore_count = 2
    /\ InFlight = 2
    /\ \E t \in Tasks : task[t].pc = "waiting"

\* C2: when the drain loop has ended, every submitted identifier, counting
\* duplicates, has put exactly one outcome into exactly one of bulk_data
\* and failed_items, so the two lengths add up to len(identifiers).
C2_OneOutcomeEach ==
    Drained =>
        /\ \A t \in Tasks : task[t].pc = "done"
        /\ Len(failed_items) = Cardinality(StrResults)
        /\ Len(bulk_data) = Cardinality(OtherResults)
        /\ Len(bulk_data) + Len(failed_items) = Len(identifiers)

C2_Witness ==
    /\ Drained
    /\ Len(identifiers) >= 3
    /\ bulk_data # <<>>
    /\ failed_items # <<>>

\* C3: in every category an identifier whose loader fails with a
\* non-transient error is in the failed list, is counted in failures and
\* adds nothing to the list returned.
C3_NonTransientRecordedFailed ==
    Summarised => \A t \in Tasks : FailedNonTransient(t) => RecordedFailed(t)

\* C4: for num_attempts = k >= 1, an identifier whose loader times out on
\* all k attempts is in the failed list, is counted in failures and adds
\* nothing to the list returned.
C4_ExhaustedRecordedFailed ==
    (Summarised /\ num_attempts >= 1) =>
        \A t \in Tasks : TimedOutEveryAttempt(t) => RecordedFailed(t)

\* C5: for a non-empty identifier list the summary has
\* attempted = successes + failures, and failed_items has exactly
\* `failures` entries.
C5_SummaryAddsUp ==
    (Summarised /\ identifiers # <<>>) =>
        /\ attempted = successes + failures
        /\ Len(failed_items) = failures

C5_Witness ==
    /\ pc = "returned"
    /\ successes >= 1
    /\ failures >= 1

\* C6: once the category check is passed with a non-empty identifier list,
\* the call raises nothing, whatever the loaders do and whatever the
\* options are (stated for the lower-case categories and a positive
\* semaphore_count, so that the lookup and the semaphore cannot raise).
C6_NothingRaisedOnceStarted ==
    (category \in CategoriesAccepted /\ semaphore_count >= 1 /\ identifiers # <<>>)
        => pc # "raised"

\* C7: with an empty identifier list the call returns an empty list with
\* attempted = successes = failures = 0 and no ZeroDivisionError.
C7_EmptyListReturns ==
    identifiers = <<>> =>
        /\ error.type # "ZeroDivisionError"
        /\ pc = "returned" =>
              bulk_data = <<>> /\ attempted = 0 /\ successes = 0 /\ failures = 0

\* C8: every element of the list returned is a record that carries the id
\* of a submitted identifier (none is None), and the ids of the records
\* together with those of failed_items are the ids submitted.
C8_EveryElementARecord ==
    pc = "returned" =>
        /\ \A i \in DOMAIN bulk_data :
              /\ bulk_data[i].kind \in {"dict", "SimpleNamespace"}
              /\ bulk_data[i].id \in SubmittedIds
        /\ {bulk_data[i].id : i \in DOMAIN bulk_data}
             \cup {_parse_id(ToUrl(failed_items[i])) : i \in DOMAIN failed_items}
           = SubmittedIds

\* C9: a category whose lower-cased form is not book, user or author makes
\* the call raise ValueError (line 174) before a session is opened, a task
\* is created or a loader is invoked.
C9_UnknownCategoryRejected ==
    Lower(category) \notin CategoriesAccepted =>
        /\ pc \in {"called", "raised"}
        /\ pc = "raised" => error = Raise("ValueError", 174)
        /\ session = "none"
        /\ task = <<>>

C9_Witness ==
    /\ pc = "raised"
    /\ error = Raise("ValueError", 174)
    /\ category # Lower(category)

\* C10: a loader that fails with a non-transient error is invoked exactly
\* once for its identifier, whatever num_attempts is.
C10_NonTransientInvokedOnce ==
    \A t \in Tasks : FailedNonTransient(t) => task[t].calls = 1

\* Every loader invocation of task t so far has timed out.
OnlyTimeouts(t) ==
    /\ task[t].hist # <<>>
    /\ \A i \in DOMAIN task[t].hist : task[t].hist[i] = "TimeoutError"

\* C11: with num_attempts = k >= 1, a loader that always times out is
\* invoked exactly k times for its identifier before the task settles,
\* never more and never fewer.
C11_TimeoutsInvokedKTimes ==
    num_attempts >= 1 =>
        \A t \in Tasks :
            /\ OnlyTimeouts(t) => task[t].calls <= num_attempts
            /\ (OnlyTimeouts(t) /\ task[t].pc = "done") =>
                  task[t].calls = num_attempts /\ Len(task[t].hist) = num_attempts

C11_Witness ==
    /\ num_attempts = 2
    /\ \E t \in Tasks :
          task[t].pc = "done" /\ OnlyTimeouts(t) /\ task[t].calls = 2

Transient == {"TimeoutError", "ClientError"}

\* C12: a ClientError raised by load_*_async is treated as transient: when
\* attempts remain the task backs off and invokes the loader again, it does
\* not record the identifier as failed at once (a task only settles after a
\* ClientError on its last attempt, and every transient failure that was
\* followed by a new invocation was slept on).
C12_ClientErrorRetried ==
    \A t \in Tasks :
        /\ (task[t].pc = "done" /\ task[t].hist # <<>>
              /\ task[t].hist[Len(task[t].hist)] = "ClientError")
             => Len(task[t].hist) = Attempts
        /\ task[t].pc = "loading" => task[t].sleeps = Count(task[t].hist, Transient)

\* Line 198: both pacing options are truthy.
PacingOn == batch_delay # 0 /\ batch_size # 0

\* C14: with pacing on, every batch_size-th completion is followed by a
\* pause before the run can finish, the last batch included: a run over n
\* identifiers has taken floor(n / batch_size) pauses when its drain loop
\* has ended.
C14_PauseAfterEveryBatch ==
    (PacingOn /\ Drained) => pauses = Len(identifiers) \div batch_size

\* Exactly one of batch_delay and batch_size was given.
PacingInconsistent == (batch_delay = 0) # (batch_size = 0)

C16_DuplicatesKept ==
    /\ session # "none" => Len(task) = Len(identifiers)
    /\ Drained =>
          /\ completed = Len(identifiers)
          /\ Len(bulk_data) + Len(failed_items) = Len(identifiers)
          /\ \A t \in Tasks : task[t].pc = "done" /\ task[t].calls >= 1
    /\ Summarised => attempted = Len(identifiers)

C16_Witness ==
    /\ identifiers = Twice
    /\ pc = "returned"
    /\ attempted = 2
    /\ Len(bulk_data) = 1
    /\ Len(failed_items) = 1
    /\ task[1].calls = 1
    /\ task[2].calls = 1

\* The place of task t in the order of completion (0: not finished).
Rank(t) ==
    IF \E i \in DOMAIN settled : settled[i] = t
    THEN CHOOSE i \in DOMAIN settled : settled[i] = t
    ELSE 0

\* Task t has returned a Record.
YieldedRecord(t) == task[t].pc = "done" /\ task[t].result.kind \in {"dict", "SimpleNamespace"}

\* C18: outcomes are aggregated in completion order.  For two different
\* identifiers whose tasks both yield a Record, if the first task finished
\* before the second then, once the second Record is in the list, the first
\* is there too and at a smaller index, wherever the two stand in the input.
C18_CompletionOrder ==
    \A t, u \in Tasks :
        (/\ identifiers[t] # identifiers[u]
         /\ YieldedRecord(t) /\ YieldedRecord(u)
         /\ Rank(t) < Rank(u)
         /\ \E j \in DOMAIN bulk_data : bulk_data[j] = task[u].result)
        => \E i, j \in DOMAIN bulk_data :
              /\ i < j
              /\ bulk_data[i] = task[t].result
              /\ bulk_data[j] = task[u].result

C18_Witness ==
    /\ Len(identifiers) >= 2
    /\ pc = "returned"
    /\ YieldedRecord(1) /\ YieldedRecord(2)
    /\ Rank(2) < Rank(1)
    /\ bulk_data[1] = task[2].result
    /\ bulk_data[2] = task[1].result

\* The tasks inside `async with semaphore`.
Holders == {t \in Tasks : task[t].pc \in {"loading", "sleeping"}}

\* Task t is queued for a slot; task t has been given one.
Waiting(t) == t \in Tasks /\ task[t].pc = "waiting"
Acquired(t) == t \in Tasks /\ task[t].pc # "waiting"

\* The call has ended, by a return or by an exception.
Finished == pc \in {"returned", "raised"}

\* C13: with semaphore_count >= 1, a fair event loop and loader invocations
\* that end, every task waiting for a slot gets one (a task never goes back
\* to waiting, so: from some point on no task waits); a slot is held by
\* exactly the tasks inside the gate, so each is given back however its
\* task ends (record, non-transient failure, attempts exhausted) and all
\* are free when the drain loop is over; and the call comes to an end.
C13_NoStarvation ==
    /\ <>[](\A t \in Tasks : Acquired(t))
    /\ [](session # "none" => sem + Cardinality(Holders) = semaphore_count)
    /\ [](Drained => sem = semaphore_count)
    /\ <>Finished

C13_Witness ==
    /\ semaphore_count = 1
    /\ Len(identifiers) = 3
    /\ pc = "returned"
    /\ sem = 1
    /\ \E t, u, v \in Tasks :
          /\ YieldedRecord(t)
          /\ isinstance_str(task[u].result)
          /\ task[v].result = None /\ OnlyTimeouts(v)

\* C17: a wrapper behaves as bulk_load_aio with the category fixed, also
\* for the options left out.  Whichever of the four functions is called,
\* the orchestrator runs for the wrapper's category with the pacing options
\* as passed, and a call that leaves batch_delay and batch_size out runs
\* with pacing off: it never pauses.
C17_SameWithOmittedOptions ==
    pc # "entry" =>
        /\ entry \in DOMAIN WrapperCategory => category = WrapperCategory[entry]
        /\ omitted # {} => (pauses = 0 /\ pc # "paused")

\* The only load call made so far on the new object has ended.
FirstLoadEnded == Len(load_hist) = 1 /\ lpc = "idle"

\* C19: on a new Alexandria, Pound or FalseDmitry object, a load call
\* (load_* or load_*_async) that raises leaves the object unloaded and
\* _confirm_loaded raises RuntimeError; a load call that returns leaves it
\* loaded and _confirm_loaded returns None.
C19_LoadedIffLoadSucceeded ==
    FirstLoadEnded =>
        /\ (_soup # NoSoup) <=> (load_hist[1] = "returned")
        /\ last.op = "_confirm_loaded" =>
              IF load_hist[1] = "returned"
              THEN last.raised = "none" /\ last.value = "None"
              ELSE last.raised = "RuntimeError"

C19_Witness ==
    /\ FirstLoadEnded
    /\ klass = "Pound"
    /\ how = "async"
    /\ load_hist[1] = "Exception"
    /\ last.op = "_confirm_loaded"
    /\ last.raised = "RuntimeError"

\* C20: on a loaded object get_all_data(to_dict=True) returns a mapping
\* and get_all_data() with no argument returns a SimpleNamespace, in the
\* three classes alike.
C20_NoArgumentGivesNamespace ==
    (last.op = "get_all_data" /\ last.raised = "none") =>
        /\ last.arg = "True" => last.value = "dict"
        /\ last.arg = "omitted" => last.value = "SimpleNamespace"

C22_SleepOnlyWhenAttemptsRemain ==
    \A t \in Tasks :
        /\ task[t].pc = "sleeping" => task[t].calls < Attempts
        /\ (task[t].pc = "done" /\ OnlyTimeouts(t)) => task[t].sleeps = task[t].calls - 1

\* C23 as stated: the sleep that comes before attempt i (from 1, i >= 2)
\* lasts i^1.5 seconds: its base is i, the square of its duration i^3.
C23_BaseIsAttemptToCome ==
    \A t \in Tasks : \A k \in DOMAIN task[t].slept :
        LET s == task[t].slept[k]
        IN s.base = s.before /\ s.squared = s.before * s.before * s.before

\* C23 as amended: the sleep that follows the timeout of attempt i (from 1)
\* lasts i^1.5 seconds, so the sleep that comes before attempt i >= 2 lasts
\* (i - 1)^1.5 seconds; whatever the category and whatever happened in the
\* earlier attempts.
C23_BaseIsAttemptTimedOut ==
    \A t \in Tasks : \A k \in DOMAIN task[t].slept :
        LET s == task[t].slept[k]
            i == s.before - 1
        IN /\ i >= 1
           /\ task[t].hist[i] = "TimeoutError"
           /\ s.base = i
           /\ s.squared = i * i * i

C23_Witness ==
    /\ cat_fn = "_load_one_author_aio"
    /\ \E t \in Tasks :
          /\ task[t].hist = <<"ClientError", "TimeoutError">>
          /\ task[t].slept = <<[before |-> 3, base |-> 2, squared |-> 8]>>

Sleepers == {t \in Tasks : task[t].pc = "sleeping"}

\* C24 as stated: a task in its backoff sleep occupies no slot, so the
\* slots taken are those of the loader invocations in flight, and while a
\* task sleeps a waiting task can acquire a slot whenever fewer than
\* semaphore_count invocations are in flight, also when semaphore_count = 1.
C24_SleeperHoldsNoSlot ==
    (pc = "draining" /\ Sleepers # {}) =>
        /\ sem + InFlight = semaphore_count
        /\ \A u \in Tasks :
              (Waiting(u) /\ InFlight < semaphore_count
                 /\ \A v \in Tasks : v < u => ~Waiting(v))
              => CanAcquire(u)

\* C24 as amended: a task in its backoff sleep keeps its slot.  The slots
\* taken are those of the tasks loading or sleeping; a waiting task can
\* acquire during the sleep only if another slot is free, and with
\* semaphore_count = 1 none can until the sleeping task has finished.
C24_SleeperKeepsSlot ==
    (pc = "draining" /\ Sleepers # {}) =>
        /\ sem + Cardinality(Holders) = semaphore_count
        /\ sem < semaphore_count
        /\ semaphore_count = 1 =>
              /\ InFlight = 0
              /\ \A u \in Tasks : Waiting(u) => ~CanAcquire(u)

C24_Witness ==
    /\ pc = "draining"
    /\ semaphore_count = 1
    /\ num_attempts = 2
    /\ Len(task) >= 2
    /\ task[1].pc = "sleeping"
    /\ task[1].calls = 1
    /\ Waiting(2)

\* C25: during a batch pause the single-item tasks keep making progress:
\* while the drain loop is paused a waiting task with a free slot can
\* acquire it, a loader invocation in flight can complete and a backoff
\* sleep can come to its end.
C25_TasksProgressDuringPause ==
    pc = "paused" =>
        \A t \in Tasks :
            /\ (Waiting(t) /\ CanAcquire(t)) => ENABLED Acquire(t)
            /\ task[t].pc = "loading" => ENABLED LoadReturns(t)
            /\ task[t].pc = "sleeping" => ENABLED BackoffEnds(t)

\* C26: validation and dispatch agree.  A category that passes the check of
\* line 173 in any spelling of its letters selects the loader of that
\* category, and the lookup of line 181 does not fail.
C26_AcceptedCategoryDispatches ==
    (Lower(category) \in CategoriesAccepted /\ pc \notin {"called", "lookup"}) =>
        /\ error.type # "KeyError"
        /\ cat_fn = cat_fn_map[Lower(category)]

\* C27: whatever integer semaphore_count is, a call over a non-empty list
\* raises before any task is launched or comes to return: as long as the
\* call has not ended something can still happen, and in particular the
\* tasks are never all left waiting for a slot that cannot come.
C27_NeverAllWaitingForever ==
    Len(identifiers) >= 1 =>
        /\ Finished \/ ENABLED Next
        /\ (pc = "draining" /\ \A t \in Tasks : Waiting(t)) =>
              \E t \in Tasks : CanAcquire(t)

\* C28: whatever num_attempts is, 0 and the negative integers included,
\* the loader of each identifier is invoked at least once: a task has made
\* an invocation as soon as it holds a slot and never finishes without one,
\* and with num_attempts <= 0 it makes exactly one, as with num_attempts = 1.
C28_InvokedAtLeastOnce ==
    \A t \in Tasks :
        /\ Acquired(t) => (task[t].calls >= 1 /\ task[t].calls <= Attempts)
        /\ task[t].pc = "done" => Len(task[t].hist) = task[t].calls
        /\ (num_attempts <= 0 /\ Acquired(t)) => task[t].calls = 1

C28_Witness ==
    /\ num_attempts = -1
    /\ pc = "returned"
    /\ Len(task) = 3
    /\ \E t, u \in Tasks :
          /\ task[t].hist = <<"TimeoutError">> /\ task[t].calls = 1
          /\ task[u].hist = <<"ok">> /\ task[u].calls = 1

\* C29: a load that fails leaves the object as it was.  Whenever the object
\* is loaded and no load is running, the id that get_id reports is the id
\* of the item whose page the other getters read; and a getter that has
\* just returned has reported that same item.
C29_UrlAndPageAgree ==
    (lpc = "idle" /\ _confirm_loaded = "none") =>
        /\ get_id = _soup.of
        /\ (last.op \in Getters(klass) /\ last.raised = "none") =>
              last.value = _soup.of

\* C30: on an object that no load has gone through on, a public getter or
\* get_all_data raises RuntimeError and nothing else.
C30_NeverLoadedRaisesRuntimeError ==
    (_soup = NoSoup /\ last.op \in Getters(klass) \cup {"get_all_data"}) =>
        last.raised = "RuntimeError"

====
